---- MODULE Spec2Model ----
(***************************************************************************)
(* A model of ilib-webpack-plugin: the locale data aggregation engine      *)
(* (emitLocaleData), the feature registration entry point (addData), the   *)
(* placeholder pre-creation (getDummyLocaleDataFiles) and the              *)
(* finish-modules hook of IlibDataPlugin.prototype.apply.                  *)
(*                                                                         *)
(* Strings that the code takes apart or rewrites (locale directories,      *)
(* partition names, feature names, paths, zone names) are sequences of     *)
(* tokens: "en/US" is <<"en", "/", "US">>.  A JS Set or a JS object is a    *)
(* sequence without repeated members (keys), in insertion order.           *)
(***************************************************************************)
EXTENDS Naturals, Sequences, FiniteSets, TLC

VARIABLES
    localeData,         \* the module-wide Set of registered feature names
    localeDataEmitted,  \* the emission cache: Undefined or the cached sources
    localeDataFiles,    \* the placeholder cache: Undefined or the list of names
    files,              \* the output directory <tempDir>/locales: a sequence of [path, text]
    modules,            \* the host's in-memory modules: a sequence of [resource, source]
    options,            \* this.options of the plugin instance
    ilibDir,            \* what findIlibRoot() finds: Undefined or the directory of ilib
    disk,               \* the locale data installation under the data root
    hist                \* history of the calls made so far (what each returned)

vars == <<localeData, localeDataEmitted, localeDataFiles, files, modules, options, ilibDir,
          disk, hist>>

----------------------------------------------------------------------------
(* Bounds of the model *)

MaxLocales == 2     \* longest options.locales list
MaxFeatures == 2    \* most feature names ever registered

----------------------------------------------------------------------------
(* JS values *)

Undefined == [defined |-> FALSE]
Def(v) == [defined |-> TRUE, value |-> v]

Range(s) == {s[i] : i \in 1..Len(s)}

\* Set.prototype.add on an insertion-ordered set
SetAdd(s, x) == IF x \in Range(s) THEN s ELSE Append(s, x)

RECURSIVE SetAddAll(_, _)
SetAddAll(s, xs) == IF xs = <<>> THEN s ELSE SetAddAll(SetAdd(s, Head(xs)), Tail(xs))

\* toArray(set)
toArray(set) == set

\* the index of key k in an object (a sequence of [key, value]), 0 when absent
RECURSIVE IndexOfKey(_, _)
IndexOfKey(obj, k) ==
    IF obj = <<>> THEN 0
    ELSE IF obj[Len(obj)].key = k THEN Len(obj)
    ELSE IndexOfKey(SubSeq(obj, 1, Len(obj) - 1), k)

HasKey(obj, k) == IndexOfKey(obj, k) # 0

Get(obj, k) == obj[IndexOfKey(obj, k)].value

Keys(obj) == [i \in 1..Len(obj) |-> obj[i].key]

\* a variant of Put that never looks for the key
PutAppending(obj, k, v) == Append(obj, [key |-> k, value |-> v])

\* obj[k] = v : replaces the value of an existing key in place, else appends the key
Put(obj, k, v) ==
    IF HasKey(obj, k)
    THEN [obj EXCEPT ![IndexOfKey(obj, k)] = [key |-> k, value |-> v]]
    ELSE Append(obj, [key |-> k, value |-> v])

RECURSIVE Flatten(_)
Flatten(ss) == IF ss = <<>> THEN <<>> ELSE Head(ss) \o Flatten(Tail(ss))

----------------------------------------------------------------------------
(* Locale tags (ilib's Locale): absent script or region is "" (falsy) *)

Loc(l, s, r) == [language |-> l, script |-> s, region |-> r]

enUS == Loc("en", "", "US")
en == Loc("en", "", "")
zhHansCN == Loc("zh", "Hans", "CN")
srLatn == Loc("sr", "Latn", "")

Locales == {enUS, en, zhHansCN, srLatn}

\* new LocaleMatcher({locale: locale}).getLikelyLocale().getScript()
LikelyScript(l) ==
    IF l.script # "" THEN l.script
    ELSE CASE l.language = "en" -> "Latn"
           [] l.language = "zh" -> "Hans"
           [] l.language = "sr" -> "Cyrl"
           [] OTHER -> ""

\* every list of at most n distinct locales, at least one
LocaleLists(n) ==
    {s \in UNION {[1..k -> Locales] : k \in 1..n} :
        \A i, j \in 1..Len(s) : i # j => s[i] # s[j]}

----------------------------------------------------------------------------
(* Feature names *)

charset == <<"charset">>
charmaps == <<"charmaps">>
zoneinfo == <<"zoneinfo">>
nfc == <<"nfc">>
nfcAll == <<"nfc", "/", "all">>
nfcLatn == <<"nfc", "/", "Latn">>
dateformat == <<"dateformat">>
nfcdata == <<"nfc", "data">>      \* the name "nfcdata"

Features == {charset, charmaps, zoneinfo, nfc, nfcAll, nfcLatn, dateformat, nfcdata}

\* characters that are not word characters (\w) and split a name into tokens
Separators == {"/", "-", ".", "+", ":", "(", ")", "\\"}

FormTokens == {"nfc", "nfd", "nfkc", "nfkd"}

\* (\w+) matched at token i: the longest run of word tokens, joined
RECURSIVE WordRun(_, _)
WordRun(filename, i) ==
    IF i > Len(filename) \/ filename[i] \in Separators THEN ""
    ELSE filename[i] \o WordRun(filename, i + 1)

\* normPattern.exec(filename) with lastIndex = 0: the pattern is not anchored, so
\* the match is the leftmost form token anywhere in the name, and group 3 is the
\* word after a "/" that follows it, "" if there is none.  (A form token inside
\* a longer word is a token of its own: "nfcdata" is <<"nfc", "data">>.)
RECURSIVE normExecFrom(_, _)
normExecFrom(filename, i) ==
    IF i > Len(filename) THEN [matched |-> FALSE, form |-> "", script |-> ""]
    ELSE IF filename[i] \in FormTokens
    THEN [matched |-> TRUE,
          form |-> filename[i],
          script |-> IF i + 1 <= Len(filename) /\ filename[i + 1] = "/"
                     THEN WordRun(filename, i + 2) ELSE ""]
    ELSE normExecFrom(filename, i + 1)

normExec(filename) == normExecFrom(filename, 1)

----------------------------------------------------------------------------
(* The locale data installation: paths are relative to the data root *)

rootPart == <<"root">>
json == <<".json">>

\* path.join(dir, name): a leading "." segment is normalized away
Join(dir, name) == IF dir = <<".">> THEN name ELSE dir \o <<"/">> \o name

zonetabPath == <<"zoneinfo", "/", "zonetab", ".json">>
lang2charsetPath == <<"lang2charset", ".json">>
aliasesPath == <<"charsetaliases", ".json">>

NewYork == <<"America", "/", "New_York">>
Shanghai == <<"Asia", "/", "Shanghai">>

ZoneDirList == << <<"America">>, <<"Asia">>, <<"Etc">>, <<"UTC", ".json">>, <<"zonetab", ".json">> >>
EtcDirList == << <<"GMT", "+", "1", ".json">>, <<"UTC", ".json">> >>

Zonetab ==
    << [key |-> "US", value |-> <<NewYork>>],
       [key |-> "CN", value |-> <<Shanghai>>] >>

Lang2Charset ==
    << [key |-> <<"en">>, value |-> <<"Latin1">>],
       [key |-> <<"zh", "-", "Hans">>, value |-> <<"GBK", "Latin1">>] >>

ZoneFiles ==
    { <<"zoneinfo", "/", "UTC", ".json">>,
      <<"zoneinfo", "/", "Etc", "/", "UTC", ".json">>,
      <<"zoneinfo", "/", "Etc", "/", "GMT", "+", "1", ".json">> }

\* an installation with time zone data and the charset table; the zone file
\* of Asia/Shanghai and some generic fragments are missing
DiskMain ==
    [files |-> ZoneFiles \cup
        { zonetabPath, lang2charsetPath, aliasesPath,
          <<"zoneinfo", "/">> \o NewYork \o json,
          <<"dateformat", ".json">>,
          <<"en", "/", "dateformat", ".json">>,
          <<"en", "/", "US", "/", "dateformat", ".json">>,
          <<"zh", "/", "dateformat", ".json">>,
          <<"zh", "/", "Hans", "/", "CN", "/", "dateformat", ".json">>,
          <<"sr", "/", "Latn", "/", "dateformat", ".json">>,
          <<"charset", "/", "Latin1", ".json">>,
          <<"charset", "/", "GBK", ".json">>,
          <<"charmaps", "/", "Latin1", ".json">>,
          <<"charmaps", "/", "GBK", ".json">>,
          <<"nfc", "/", "all", ".json">>,
          <<"nfc", "/", "Latn", ".json">>,
          <<"nfc", "/", "Hans", ".json">> },
     zoneDir |-> Def(ZoneDirList),
     etcDir |-> Def(EtcDirList),
     zonetab |-> Zonetab,
     lang2charset |-> Lang2Charset,
     optional |-> {"GBK"}]

\* an installation without time zone data and without the charset table
DiskBare ==
    [files |-> { <<"en", "/", "dateformat", ".json">>,
                 <<"und", "/", "US", "/", "dateformat", ".json">>,
                 <<"nfc", "/", "Latn", ".json">> },
     zoneDir |-> Undefined,
     etcDir |-> Undefined,
     zonetab |-> <<>>,
     lang2charset |-> <<>>,
     optional |-> {}]

Disks == {DiskMain, DiskBare}

\* fs.existsSync(path.join(dataRoot, rel))
existsSync(d, rel) == rel \in d.files

\* fs.readFileSync(path.join(dataRoot, rel), "utf-8"): the payload of that file
readFileSync(d, rel) == [file |-> rel]

----------------------------------------------------------------------------
(* Assignment lines and bucket entries *)

\* the empty string recorded for a missing fragment (falsy)
EmptyLine == [kind |-> "empty", lhs |-> <<>>, data |-> [file |-> <<>>]]

Truthy(line) == line.kind # "empty"

\* toIlibDataName(str)
toIlibDataName(str) ==
    IF str = <<>> \/ str = <<"root">> \/ str = <<"*">> THEN <<>>
    ELSE [i \in 1..Len(str) |->
            IF str[i] \in {".", ":", "(", ")", "/", "\\", "+", "-"} THEN "_" ELSE str[i]]

\* zone.replace(/-/g, "m").replace(/\+/g, "p")
zoneKey(zone) ==
    [i \in 1..Len(zone) |->
        IF zone[i] = "-" THEN "m" ELSE IF zone[i] = "+" THEN "p" ELSE zone[i]]

\* "ilib.data." + toIlibDataName(filename) [+ "_" + toIlibDataName(part)] + " = " + data + ";\n"
GenericLine(filename, part, data) ==
    [kind |-> "assign",
     lhs |-> <<"ilib.data.">> \o toIlibDataName(filename)
             \o (IF part # rootPart THEN <<"_">> \o toIlibDataName(part) ELSE <<>>),
     data |-> data]

\* 'ilib.data.zoneinfo.zonetab = ' + data + ';\n'
ZonetabLine(data) ==
    [kind |-> "assign", lhs |-> <<"ilib.data.zoneinfo.zonetab">>, data |-> data]

\* 'ilib.data.zoneinfo["' + zoneKey(zone) + '"] = ' + data + ';\n'
ZoneLine(zone, data) ==
    [kind |-> "assign", lhs |-> <<"ilib.data.zoneinfo[">> \o zoneKey(zone) \o <<"]">>, data |-> data]

\* "ilib.data.charsetaliases = " + data + ";\n"
AliasesLine(data) ==
    [kind |-> "assign", lhs |-> <<"ilib.data.charsetaliases">>, data |-> data]

\* "ilib.data.charset_" + toIlibDataName(charset) + " = " + data + ";\n"
CharsetLine(cs, data) ==
    [kind |-> "assign", lhs |-> <<"ilib.data.charset_">> \o toIlibDataName(<<cs>>), data |-> data]

\* "ilib.data.charmaps_" + toIlibDataName(charset) + " = " + data + ";\n"
CharmapLine(cs, data) ==
    [kind |-> "assign", lhs |-> <<"ilib.data.charmaps_">> \o toIlibDataName(<<cs>>), data |-> data]

\* '// form f script s\nilib.extend(ilib.data.norm.' + form + ', ' + data + ');\n'
FormLine(form, script, data) ==
    [kind |-> "extend", lhs |-> <<"ilib.data.norm.", form, script>>, data |-> data]

----------------------------------------------------------------------------
(* The Locale Chain Resolver *)

\* a variant that tries the region directories before the script directories
partsRegionFirst(l) ==
    << <<".">>, <<l.language>> >>
    \o (IF l.region # ""
        THEN << <<l.language, "/", l.region>>, <<"und", "/", l.region>> >>
        ELSE <<>>)
    \o (IF l.script # ""
        THEN << <<l.language, "/", l.script>> >>
             \o (IF l.region # ""
                 THEN << <<l.language, "/", l.script, "/", l.region>> >>
                 ELSE <<>>)
        ELSE <<>>)

\* the directories tried for a generic feature, in order
parts(l) ==
    << <<".">>, <<l.language>> >>
    \o (IF l.script # ""
        THEN << <<l.language, "/", l.script>> >>
             \o (IF l.region # ""
                 THEN << <<l.language, "/", l.script, "/", l.region>> >>
                 ELSE <<>>)
        ELSE <<>>)
    \o (IF l.region # ""
        THEN << <<l.language, "/", l.region>>, <<"und", "/", l.region>> >>
        ELSE <<>>)

\* localeDir === "." ? "root" : localeDir, then .replace(/\//g, "-")
partName(localeDir) ==
    LET part == IF localeDir = <<".">> THEN rootPart ELSE localeDir
    IN [i \in 1..Len(part) |-> IF part[i] = "/" THEN "-" ELSE part[i]]

\* a variant that leaves out the und-<region> partition
dummyPartsNoUnd(l) ==
    << rootPart, <<l.language>> >>
    \o (IF l.script # ""
        THEN << <<l.language, "-", l.script>> >>
             \o (IF l.region # ""
                 THEN << <<l.language, "-", l.script, "-", l.region>> >>
                 ELSE <<>>)
        ELSE <<>>)
    \o (IF l.region # "" THEN << <<l.language, "-", l.region>> >> ELSE <<>>)

\* the partitions getDummyLocaleDataFiles adds for one locale, in order
dummyParts(l) ==
    << rootPart, <<l.language>> >>
    \o (IF l.script # ""
        THEN << <<l.language, "-", l.script>> >>
             \o (IF l.region # ""
                 THEN << <<l.language, "-", l.script, "-", l.region>> >>
                 ELSE <<>>)
        ELSE <<>>)
    \o (IF l.region # ""
        THEN << <<l.language, "-", l.region>>, <<"und", "-", l.region>> >>
        ELSE <<>>)

----------------------------------------------------------------------------
(* The aggregation pass of emitLocaleData.  st is the pass's local state:  *)
(* outputSet (partition -> key -> line), manifest, charsets, charmaps,     *)
(* normalizations, and threw (an exception left the function).             *)

NewPass ==
    [outputSet |-> <<>>, manifest |-> <<>>, charsets |-> <<>>, charmaps |-> <<>>,
     normalizations |-> <<>>, threw |-> FALSE]

\* if (!outputSet[part]) outputSet[part] = {}
EnsureBucket(outputSet, part) ==
    IF HasKey(outputSet, part) THEN outputSet ELSE Put(outputSet, part, <<>>)

\* outputSet[part][key] = line, the bucket being there
SetEntry(outputSet, part, key, line) ==
    Put(outputSet, part, Put(Get(outputSet, part), key, line))

\* outputSet[part][key] is there and truthy
EntryTruthy(outputSet, part, key) ==
    /\ HasKey(Get(outputSet, part), key)
    /\ Truthy(Get(Get(outputSet, part), key))

\* a variant that appends the line of a found fragment to the partition on
\* every visit, without looking for an earlier entry of the feature
GenericPartAppending(d, st, localeDir, filename) ==
    LET rel == Join(localeDir, filename \o json)
        part == partName(localeDir)
        os == EnsureBucket(st.outputSet, part)
    IN [st EXCEPT !.outputSet =
                      Put(os, part,
                          PutAppending(Get(os, part), filename,
                                       IF existsSync(d, rel)
                                       THEN GenericLine(filename, part, readFileSync(d, rel))
                                       ELSE EmptyLine)),
                  !.manifest = SetAdd(st.manifest, rel)]

\* one iteration of parts.forEach for a generic feature
GenericPart(d, st, localeDir, filename) ==
    LET rel == Join(localeDir, filename \o json)
        part == partName(localeDir)
        os == EnsureBucket(st.outputSet, part)
    IN IF existsSync(d, rel)
       THEN IF ~EntryTruthy(os, part, filename)
            THEN [st EXCEPT !.outputSet =
                                SetEntry(os, part, filename,
                                         GenericLine(filename, part, readFileSync(d, rel))),
                            !.manifest = SetAdd(st.manifest, rel)]
            ELSE [st EXCEPT !.outputSet = os]
       ELSE [st EXCEPT !.outputSet = SetEntry(os, part, filename, EmptyLine),
                       !.manifest = SetAdd(st.manifest, rel)]

RECURSIVE GenericParts(_, _, _, _)
GenericParts(d, st, dirs, filename) ==
    IF dirs = <<>> THEN st
    ELSE GenericParts(d, GenericPart(d, st, Head(dirs), filename), Tail(dirs), filename)

\* the generic branch for one (locale, filename)
GenericStep(d, st, locale, filename) == GenericParts(d, st, parts(locale), filename)

\* path.basename(file, ".json")
RECURSIVE LastSlash(_, _)
LastSlash(file, i) == IF i = 0 THEN 0 ELSE IF file[i] = "/" THEN i ELSE LastSlash(file, i - 1)

basename(file) ==
    LET base == SubSeq(file, LastSlash(file, Len(file)) + 1, Len(file))
    IN IF base # <<>> /\ base[Len(base)] = ".json" /\ Len(base) > 1
       THEN SubSeq(base, 1, Len(base) - 1) ELSE base

\* regionSet: the regions of all the locales (undefined, here "", included)
RECURSIVE RegionSet(_)
RegionSet(locales) ==
    IF locales = <<>> THEN <<>>
    ELSE SetAddAll(<<Head(locales).region>>, RegionSet(Tail(locales)))

\* zoneSet: the zones zonetab lists for those regions
RECURSIVE ZoneSet(_, _, _)
ZoneSet(zonetab, regions, acc) ==
    IF regions = <<>> THEN acc
    ELSE ZoneSet(zonetab, Tail(regions),
                 IF HasKey(zonetab, Head(regions))
                 THEN SetAddAll(acc, Get(zonetab, Head(regions)))
                 ELSE acc)

\* zoneSet.forEach: a zone is added when its file exists
RECURSIVE RegionZones(_, _, _)
RegionZones(d, st, zones) ==
    IF zones = <<>> THEN st
    ELSE LET zone == Head(zones)
             rel == <<"zoneinfo", "/">> \o zone \o json
         IN RegionZones(d,
                IF existsSync(d, rel)
                THEN [st EXCEPT !.outputSet =
                                    SetEntry(st.outputSet, rootPart, zone,
                                             ZoneLine(zone, readFileSync(d, rel))),
                                !.manifest = SetAdd(st.manifest, rel)]
                ELSE st,
                Tail(zones))

\* list.filter(...).forEach: every .json file of the listing but zonetab.json
RECURSIVE GenericZones(_, _, _)
GenericZones(d, st, list) ==
    IF list = <<>> THEN st
    ELSE LET file == Head(list)
             zone == basename(file)
             rel == <<"zoneinfo", "/">> \o file
         IN GenericZones(d,
                IF file[Len(file)] = ".json" /\ file # <<"zonetab", ".json">>
                THEN [st EXCEPT !.outputSet =
                                    SetEntry(st.outputSet, rootPart, zone,
                                             ZoneLine(zone, readFileSync(d, rel))),
                                !.manifest = SetAdd(st.manifest, rel)]
                ELSE st,
                Tail(list))

\* the zoneinfo branch, run for every (locale, "zoneinfo")
ZoneinfoStep(d, st, locales) ==
    IF ~existsSync(d, zonetabPath)
    THEN [st EXCEPT !.threw = TRUE]     \* readFileSync throws, outside any try
    ELSE LET os == EnsureBucket(st.outputSet, rootPart)
             st1 == [st EXCEPT !.outputSet =
                                   SetEntry(os, rootPart, <<"zonetab">>,
                                            ZonetabLine(readFileSync(d, zonetabPath))),
                               !.manifest = SetAdd(st.manifest, zonetabPath)]
             zoneSet == ZoneSet(d.zonetab, RegionSet(locales), <<>>)
             st2 == RegionZones(d, st1, zoneSet)
         IN IF ~d.zoneDir.defined \/ ~d.etcDir.defined
            THEN [st2 EXCEPT !.threw = TRUE]    \* readdirSync throws
            ELSE GenericZones(d, st2,
                     d.zoneDir.value
                     \o [i \in 1..Len(d.etcDir.value) |-> <<"Etc", "/">> \o d.etcDir.value[i]])

\* the assignments outputSet.root[key] = line of one run of the zoneinfo branch,
\* in the order they are made: zonetab, the regional zones whose file exists,
\* the generic zones of the listing
ZoneWrites(d, locales) ==
    LET zoneSet == ZoneSet(d.zonetab, RegionSet(locales), <<>>)
        found == SelectSeq(zoneSet, LAMBDA z : existsSync(d, <<"zoneinfo", "/">> \o z \o json))
        list == SelectSeq(d.zoneDir.value
                          \o [i \in 1..Len(d.etcDir.value) |-> <<"Etc", "/">> \o d.etcDir.value[i]],
                          LAMBDA f : f[Len(f)] = ".json" /\ f # <<"zonetab", ".json">>)
    IN << [key |-> <<"zonetab">>, line |-> ZonetabLine(readFileSync(d, zonetabPath))] >>
       \o [i \in 1..Len(found) |->
              [key |-> found[i],
               line |-> ZoneLine(found[i], readFileSync(d, <<"zoneinfo", "/">> \o found[i] \o json))]]
       \o [i \in 1..Len(list) |->
              [key |-> basename(list[i]),
               line |-> ZoneLine(basename(list[i]), readFileSync(d, <<"zoneinfo", "/">> \o list[i]))]]

\* l.getLanguage() + (l.getScript() ? ("-" + l.getScript()) : "")
langScript(l) == IF l.script # "" THEN <<l.language, "-", l.script>> ELSE <<l.language>>

\* the charset / charmaps branch for one (locale, filename)
CharsetStep(d, st, locale, filename) ==
    IF ~existsSync(d, lang2charsetPath)
    THEN [st EXCEPT !.threw = TRUE]     \* require throws, outside any try
    ELSE LET spec == langScript(locale)
         IN IF ~HasKey(d.lang2charset, spec) THEN st
            ELSE LET names == Get(d.lang2charset, spec)
                     had == IF HasKey(st.charmaps, spec) THEN Get(st.charmaps, spec) ELSE <<>>
                 IN [st EXCEPT !.charsets = SetAddAll(st.charsets, names),
                               !.charmaps = IF filename = charmaps
                                            THEN Put(st.charmaps, spec, SetAddAll(had, names))
                                            ELSE st.charmaps]

\* the normalization branch: match is the result of normPattern.exec(filename)
NormStep(st, match) ==
    LET had == IF HasKey(st.normalizations, match.form)
               THEN Get(st.normalizations, match.form) ELSE <<>>
    IN [st EXCEPT !.normalizations = Put(st.normalizations, match.form, SetAdd(had, match.script))]

\* the category a feature name falls in: the if / else if chain of the loop body
Classify(filename) ==
    IF filename = charset \/ filename = charmaps THEN "charset"
    ELSE IF normExec(filename).matched THEN "normalization"
    ELSE IF filename = zoneinfo THEN "zoneinfo"
    ELSE "generic"

\* the body of localeData.forEach for one (locale, filename)
Step(d, st, locales, locale, filename) ==
    IF st.threw THEN st
    ELSE CASE Classify(filename) = "charset" -> CharsetStep(d, st, locale, filename)
           [] Classify(filename) = "normalization" -> NormStep(st, normExec(filename))
           [] Classify(filename) = "zoneinfo" -> ZoneinfoStep(d, st, locales)
           [] OTHER -> GenericStep(d, st, locale, filename)

RECURSIVE FeatureLoop(_, _, _, _, _)
FeatureLoop(d, st, locales, locale, names) ==
    IF names = <<>> THEN st
    ELSE FeatureLoop(d, Step(d, st, locales, locale, Head(names)), locales, locale, Tail(names))

\* locales.forEach(locale => localeData.forEach(filename => ...))
RECURSIVE LocaleLoop(_, _, _, _, _)
LocaleLoop(d, st, locales, rest, names) ==
    IF rest = <<>> THEN st
    ELSE LocaleLoop(d, FeatureLoop(d, st, locales, Head(rest), names), locales, Tail(rest), names)

----------------------------------------------------------------------------
(* After the loops: charsets and charmaps *)

charsetKey(cs) == <<"charset_", cs>>
charmapsKey(cs) == <<"charmaps_", cs>>
charsetPath(cs) == <<"charset", "/", cs, ".json">>
charmapsPath(cs) == <<"charmaps", "/", cs, ".json">>

\* a variant that reads no optional flag
IsOptionalNever(d, cs) == FALSE

\* JSON.parse(data).optional is the boolean true
IsOptional(d, cs) == cs \in d.optional

\* charsets.forEach: st.optional collects the optional charsets seen
RECURSIVE CharsetFiles(_, _, _)
CharsetFiles(d, st, names) ==
    IF names = <<>> THEN st
    ELSE LET cs == Head(names)
             rel == charsetPath(cs)
         IN CharsetFiles(d,
                IF ~EntryTruthy(st.outputSet, rootPart, charsetKey(cs)) /\ existsSync(d, rel)
                THEN [st EXCEPT !.outputSet =
                                    SetEntry(st.outputSet, rootPart, charsetKey(cs),
                                             CharsetLine(cs, readFileSync(d, rel))),
                                !.manifest = SetAdd(st.manifest, rel),
                                !.optional = IF IsOptional(d, cs)
                                             THEN st.optional \cup {cs} ELSE st.optional]
                ELSE st,
                Tail(names))

\* charmaps[locale].forEach
RECURSIVE CharmapFiles(_, _, _)
CharmapFiles(d, st, names) ==
    IF names = <<>> THEN st
    ELSE LET cs == Head(names)
             rel == charmapsPath(cs)
         IN CharmapFiles(d,
                IF /\ cs \notin st.optional
                   /\ ~EntryTruthy(st.outputSet, rootPart, charmapsKey(cs))
                   /\ existsSync(d, rel)
                THEN [st EXCEPT !.outputSet =
                                    SetEntry(st.outputSet, rootPart, charmapsKey(cs),
                                             CharmapLine(cs, readFileSync(d, rel))),
                                !.manifest = SetAdd(st.manifest, rel)]
                ELSE st,
                Tail(names))

\* for (var locale in charmaps)
RECURSIVE CharmapLocales(_, _, _)
CharmapLocales(d, st, cm) ==
    IF cm = <<>> THEN st
    ELSE CharmapLocales(d, CharmapFiles(d, st, Head(cm).value), Tail(cm))

\* if (charsets.size > 0) { ... }
CharsetBlock(d, st0) ==
    IF st0.threw \/ Len(st0.charsets) = 0 THEN st0
    ELSE LET os == EnsureBucket(st0.outputSet, rootPart)
             st1 == IF ~EntryTruthy(os, rootPart, <<"charsetaliases">>)
                       /\ existsSync(d, aliasesPath)
                    THEN [st0 EXCEPT !.outputSet =
                                         SetEntry(os, rootPart, <<"charsetaliases">>,
                                                  AliasesLine(readFileSync(d, aliasesPath))),
                                     !.manifest = SetAdd(st0.manifest, aliasesPath)]
                    ELSE [st0 EXCEPT !.outputSet = os]
             st2 == CharsetFiles(d, [outputSet |-> st1.outputSet, manifest |-> st1.manifest,
                                     optional |-> {}], st1.charsets)
             st3 == CharmapLocales(d, st2, st1.charmaps)
         IN [st1 EXCEPT !.outputSet = st3.outputSet, !.manifest = st3.manifest]

----------------------------------------------------------------------------
(* After the loops: normalization forms *)

\* addForm(form, script); a TypeError on a missing outputSet.root is caught inside
addForm(d, st, form, script) ==
    LET rel == <<form, "/", script, ".json">>
    IN IF script = "" THEN st
       ELSE IF ~existsSync(d, rel) THEN st
       ELSE IF ~HasKey(st.outputSet, rootPart) THEN st
       ELSE [st EXCEPT !.outputSet =
                           SetEntry(st.outputSet, rootPart, <<form, "/", script>>,
                                    FormLine(form, script, readFileSync(d, rel))),
                       !.manifest = SetAdd(st.manifest, rel)]

RECURSIVE addForms(_, _, _, _)
addForms(d, st, form, scripts) ==
    IF scripts = <<>> THEN st
    ELSE addForms(d, addForm(d, st, form, Head(scripts)), form, Tail(scripts))

\* normalizations.size: normalizations is a plain object, which has no size
normalizationsSize(normalizations) == Undefined

\* the set of scripts emitted for a form that was not requested with "all"
FormScripts(normalizations, form, scripts) ==
    IF \/ normalizationsSize(normalizations) = Def(0)
       \/ (/\ "" \in Range(Get(normalizations, form))
           /\ normalizationsSize(normalizations) = Def(1))
    THEN scripts
    ELSE Get(normalizations, form)

\* for (var form in normalizations)
RECURSIVE FormLoop(_, _, _, _, _)
FormLoop(d, st, all, rest, scripts) ==
    IF rest = <<>> THEN st
    ELSE LET form == Head(rest).key
         IN FormLoop(d,
                IF "all" \in Range(Head(rest).value)
                THEN addForm(d, st, form, "all")
                ELSE addForms(d, st, form, FormScripts(all, form, scripts)),
                all, Tail(rest), scripts)

\* scripts: the likely script of every locale
RECURSIVE LikelyScripts(_)
LikelyScripts(locales) ==
    IF locales = <<>> THEN <<>>
    ELSE LET s == LikelyScript(Head(locales))
         IN SetAddAll(IF s # "" THEN <<s>> ELSE <<>>, LikelyScripts(Tail(locales)))

NormBlock(d, st, locales) ==
    IF st.threw THEN st
    ELSE FormLoop(d, st, st.normalizations, st.normalizations, LikelyScripts(locales))

\* the whole aggregation of one pass
Aggregate(d, locales, names) ==
    NormBlock(d, CharsetBlock(d, LocaleLoop(d, NewPass, locales, locales, names)), locales)

----------------------------------------------------------------------------
(* Options and directories *)

cwd == <<"/", "work">>                              \* process.cwd()
relTempDir == <<"build">>                           \* a relative tempDir
absTempDir == <<"/", "out">>                        \* an absolute tempDir
givenIlibRoot == <<"/", "opt", "/", "ilib">>        \* a value of options.ilibRoot
foundIlibDir == cwd \o <<"/", "node_modules", "/", "ilib">>

\* the values of options.tempDir: omitted, "", relative, absolute
TempDirs == {Undefined, Def(<<>>), Def(relTempDir), Def(absTempDir)}

\* path.isAbsolute(p) for a string p
isAbsolute(p) == p # <<>> /\ p[1] = "/"

\* path.resolve(path.isAbsolute(tempDir) ? tempDir : path.join(process.cwd(), tempDir || 'assets'))
\* path.isAbsolute(undefined) throws a TypeError: Undefined stands for the throw
outputDir(opts) ==
    IF ~opts.tempDir.defined THEN Undefined
    ELSE IF isAbsolute(opts.tempDir.value) THEN Def(opts.tempDir.value)
    ELSE Def(cwd \o <<"/">> \o (IF opts.tempDir.value # <<>> THEN opts.tempDir.value
                                 ELSE <<"assets">>))

\* path.join(outputDir, "locales")
outputPath(opts) == outputDir(opts).value \o <<"/", "locales">>

\* path.join(outputPath, name)
OutFile(opts, name) == outputPath(opts) \o <<"/">> \o name

\* calcDataRoot(options); path.join(undefined, "locale") throws a TypeError when
\* there is no ilibRoot and findIlibRoot() finds nothing: Undefined stands for the throw
calcDataRoot(opts, found) ==
    IF opts.ilibRoot.defined THEN Def(opts.ilibRoot.value \o <<"/", "locale">>)
    ELSE IF found.defined THEN Def(found.value \o <<"/", "locale">>)
    ELSE Undefined

----------------------------------------------------------------------------
(* The Bundle Emitter *)

js == <<".js">>
localManifestFile == <<"localmanifest", ".js">>
remoteManifestFile == <<"remotemanifest", ".js">>
dummyManifestFile == <<"ilibmanifest", ".json">>

\* "module.exports=" + JSON.stringify({files: [...]}) + ";\n"
ManifestText(list) == [kind |-> "manifest", body |-> list]

\* the content of a placeholder: the empty string
EmptyFile == [kind |-> "emptyfile", body |-> <<>>]

\* toArray(manifest)
LocalManifestFiles(st) == toArray(st.manifest)

\* a variant that lists only the partitions that hold a line
RemoteManifestFilesNonEmpty(st) ==
    LET keep == SelectSeq(st.outputSet,
                          LAMBDA b : \E i \in 1..Len(b.value) : Truthy(b.value[i].value))
    IN [i \in 1..Len(keep) |-> keep[i].key \o js]

\* Object.keys(outputSet).map(file => file + ".js")
RemoteManifestFiles(st) ==
    [i \in 1..Len(st.outputSet) |-> st.outputSet[i].key \o js]

\* a variant that puts the lines together from the last key to the first
BundleTextReversed(dataFiles) ==
    [kind |-> "bundle",
     body |-> Flatten([i \in 1..Len(dataFiles) |->
                          IF Truthy(dataFiles[Len(dataFiles) + 1 - i].value)
                          THEN <<dataFiles[Len(dataFiles) + 1 - i].value>> ELSE <<>>])]

\* "module.exports.installLocale = function(ilib) {\n" + the lines + "};\n"
\* (the empty string of a missing fragment adds nothing)
BundleText(dataFiles) ==
    [kind |-> "bundle",
     body |-> Flatten([i \in 1..Len(dataFiles) |->
                          IF Truthy(dataFiles[i].value)
                          THEN <<dataFiles[i].value>> ELSE <<>>])]

\* the (file, text) pairs of the pass in the order they are produced
Outputs(opts, st) ==
    << [key |-> OutFile(opts, localManifestFile),
        value |-> ManifestText(LocalManifestFiles(st))],
       [key |-> OutFile(opts, remoteManifestFile),
        value |-> ManifestText(RemoteManifestFiles(st))] >>
    \o [i \in 1..Len(st.outputSet) |->
           [key |-> OutFile(opts, st.outputSet[i].key \o js),
            value |-> BundleText(st.outputSet[i].value)]]

RECURSIVE PutAll(_, _)
PutAll(obj, kvs) ==
    IF kvs = <<>> THEN obj ELSE PutAll(Put(obj, Head(kvs).key, Head(kvs).value), Tail(kvs))

\* sources: sources[outputFile] = text for every output
Sources(opts, st) == PutAll(<<>>, Outputs(opts, st))

\* a variant that leaves a file that is already there as it is
RECURSIVE PutAllIfAbsent(_, _)
PutAllIfAbsent(obj, kvs) ==
    IF kvs = <<>> THEN obj
    ELSE PutAllIfAbsent(IF HasKey(obj, Head(kvs).key) THEN obj
                        ELSE Put(obj, Head(kvs).key, Head(kvs).value),
                        Tail(kvs))

\* a variant that writes the two manifests and keeps the bundles in memory only
WriteManifestsOnly(fs, opts, st) == PutAll(fs, SubSeq(Outputs(opts, st), 1, 2))

\* a variant that writes an output only where no file is yet
WriteOutputsIfAbsent(fs, opts, st) == PutAllIfAbsent(fs, Outputs(opts, st))

\* fs.writeFileSync(outputFile, text) for every output
WriteOutputs(fs, opts, st) == PutAll(fs, Outputs(opts, st))

\* what a pass over the registered names produces
FreshPass(d, opts, names) == Aggregate(d, opts.locales, names)

\* a variant that keeps a fresh empty object as the mark of a finished pass
CacheEntryMarkOnly(sources) == Def(<<>>)

\* what is kept in localeDataEmitted at the end of a pass
CacheEntry(sources) == Def(sources)

----------------------------------------------------------------------------
(* emitLocaleData(compilation, options) *)

\* a variant that never answers from the cache
CacheHitNever(cache) == FALSE

\* if (localeDataEmitted) return localeDataEmitted
CacheHit(cache) == cache.defined

\* a variant that records the sources gathered so far when a write throws
FailedCacheKeepsPartial(cache, sources) == Def(sources)

\* localeDataEmitted when an exception leaves the function: the assignment at
\* the end of the function is never reached
FailedCache(cache, sources) == cache

\* the outcome of one call: what it returns (or that it threw), whether a pass
\* was completed (fresh), and the cache and the output directory it leaves
\* behind.  failAt = 0: every fs.writeFileSync succeeds; failAt = n > 0: the
\* n-th fs.writeFileSync of the pass, if there is one, throws.
emitLocaleData(cache, d, opts, found, names, fs, failAt) ==
    LET thrown == [threw |-> TRUE, fresh |-> FALSE, ret |-> Undefined, cache |-> cache,
                   files |-> fs]
    IN IF CacheHit(cache)
       THEN [threw |-> FALSE, fresh |-> FALSE, ret |-> Def(cache.value), cache |-> cache,
             files |-> fs]
       ELSE IF ~outputDir(opts).defined THEN thrown
       ELSE IF ~calcDataRoot(opts, found).defined THEN thrown
       ELSE LET st == FreshPass(d, opts, names)
            IN IF st.threw THEN thrown
               ELSE IF failAt > 0 /\ failAt <= Len(Outputs(opts, st))
               THEN LET done == SubSeq(Outputs(opts, st), 1, failAt - 1)
                    IN [threw |-> TRUE, fresh |-> FALSE, ret |-> Undefined,
                        cache |-> FailedCache(cache, PutAll(<<>>, done)),
                        files |-> PutAll(fs, done)]
               ELSE [threw |-> FALSE,
                     fresh |-> TRUE,
                     ret |-> Def(Sources(opts, st)),
                     cache |-> CacheEntry(Sources(opts, st)),
                     files |-> WriteOutputs(fs, opts, st)]

\* module._source._value = '"use strict";' + sources[module.resource]
UpdateModules(mods, sources) ==
    [i \in 1..Len(mods) |->
        IF HasKey(sources, mods[i].key)
        THEN [key |-> mods[i].key,
              value |-> [strict |-> TRUE, text |-> Get(sources, mods[i].key)]]
        ELSE mods[i]]

----------------------------------------------------------------------------
(* getDummyLocaleDataFiles(compilation) *)

\* outputSet: the partitions of every locale
RECURSIVE DummyOutputSet(_, _)
DummyOutputSet(acc, locales) ==
    IF locales = <<>> THEN acc
    ELSE DummyOutputSet(SetAddAll(acc, dummyParts(Head(locales))), Tail(locales))

\* JSON.stringify({files: [...]})
DummyManifestText(names) == [kind |-> "json", body |-> [i \in 1..Len(names) |-> names[i] \o js]]

\* a variant that writes whether or not the file is there
WriteAlways(fs, file, text) == Put(fs, file, text)

\* if (!fs.existsSync(file)) fs.writeFileSync(file, text)
WriteIfAbsent(fs, file, text) == IF HasKey(fs, file) THEN fs ELSE Put(fs, file, text)

RECURSIVE WriteEmptyFiles(_, _, _)
WriteEmptyFiles(fs, opts, names) ==
    IF names = <<>> THEN fs
    ELSE WriteEmptyFiles(WriteIfAbsent(fs, OutFile(opts, Head(names) \o js), EmptyFile),
                         opts, Tail(names))

----------------------------------------------------------------------------
(* The state machine *)

\* hist: the last call (op), whether it directly followed a call of the same kind (again),
\* what the emit returned (ret), whether the call threw to its caller (threw),
\* whether the hook wrote to the console (hookLog), whether it was the hook of a
\* second plugin instance (other), the names the placeholder call returned, and
\* the number of aggregation passes completed so far (passes)
NoCall == [op |-> "init", again |-> FALSE, ret |-> Undefined, threw |-> FALSE,
           hookLog |-> FALSE, other |-> FALSE, names |-> <<>>, passes |-> 0]

Called(op) == [NoCall EXCEPT !.op = op, !.passes = hist.passes]

\* the modules of the compilation: the application and one per placeholder
InitModules(opts) ==
    LET names == DummyOutputSet(<<>>, opts.locales)
        original == [strict |-> FALSE, text |-> [kind |-> "original", body |-> <<>>]]
    IN << [key |-> cwd \o <<"/", "app", ".js">>, value |-> original] >>
       \o (IF outputDir(opts).defined
           THEN [i \in 1..Len(names) |->
                    [key |-> OutFile(opts, names[i] \o js), value |-> original]]
           ELSE <<>>)

\* this.options = options || {}
OptionsOf(ls, td, root, dbg) ==
    [locales |-> ls, tempDir |-> td, ilibRoot |-> root, debug |-> dbg]

\* the state after the plugin is constructed, for a set of option objects, of
\* outcomes of findIlibRoot() and of installations
InitWith(optionSet, founds, disks) ==
    /\ localeData = <<>>
    /\ localeDataEmitted = Undefined
    /\ localeDataFiles = Undefined
    /\ files = <<>>
    /\ options \in optionSet
    /\ ilibDir \in founds
    /\ disk \in disks
    /\ modules = InitModules(options)
    /\ hist = NoCall

\* a complete configuration (tempDir and ilibRoot given), every locale list
MainOptions ==
    {OptionsOf(ls, Def(relTempDir), Def(givenIlibRoot), FALSE) : ls \in LocaleLists(MaxLocales)}

Init == InitWith(MainOptions, {Def(foundIlibDir)}, Disks)

\* a variant that clears the cache on every registration
InvalidateAlways(cache, names, data) == Undefined

\* a variant that never clears the cache
InvalidateNever(cache, names, data) == cache

\* if (!localeData.has(data)) localeDataEmitted = undefined
Invalidate(cache, names, data) == IF data \notin Range(names) THEN Undefined ELSE cache

\* IlibDataPlugin.prototype.addData(data)
AddData(data) ==
    /\ data \in Range(localeData) \/ Len(localeData) < MaxFeatures
    /\ localeDataEmitted' = Invalidate(localeDataEmitted, localeData, data)
    /\ localeData' = SetAdd(localeData, data)
    /\ hist' = Called("addData")
    /\ UNCHANGED <<localeDataFiles, files, modules, options, ilibDir, disk>>

\* a variant of the hook's catch that only logs
RethrowNever(threw) == FALSE

\* catch (e) { console.log(...); throw e; }
Rethrow(threw) == threw

\* a variant of the hook's guard that lets an empty set through
HasDataAlways(names) == TRUE

\* if (localeData.size > 0)
HasData(names) == Len(names) > 0

\* the finish-modules hook installed by IlibDataPlugin.prototype.apply for a
\* plugin instance whose options are opts
Hook(opts, failAt, other) ==
    IF HasData(localeData)
    THEN LET r == emitLocaleData(localeDataEmitted, disk, opts, ilibDir, localeData, files,
                                 failAt)
         IN /\ localeDataEmitted' = r.cache
            /\ files' = r.files
            /\ modules' = IF r.threw THEN modules ELSE UpdateModules(modules, r.ret.value)
            /\ hist' = [Called("emit") EXCEPT
                            !.again = (hist.op = "emit"), !.ret = r.ret,
                            !.threw = Rethrow(r.threw), !.hookLog = r.threw,
                            !.other = other,
                            !.passes = IF r.fresh THEN hist.passes + 1 ELSE hist.passes]
            /\ UNCHANGED <<localeData, localeDataFiles, options, ilibDir, disk>>
    ELSE /\ hist' = [Called("noop") EXCEPT !.hookLog = opts.debug, !.other = other]
         /\ UNCHANGED <<localeData, localeDataEmitted, localeDataFiles, files, modules,
                        options, ilibDir, disk>>

\* the host triggers the finish-modules stage; every write succeeds
FinishModules == Hook(options, 0, FALSE)

\* IlibDataPlugin.prototype.getDummyLocaleDataFiles(compilation)
GetDummyLocaleDataFiles ==
    IF localeDataFiles.defined
    THEN /\ hist' = [Called("dummy") EXCEPT !.again = (hist.op = "dummy"),
                                            !.names = localeDataFiles.value]
         /\ UNCHANGED <<localeData, localeDataEmitted, localeDataFiles, files, modules,
                        options, ilibDir, disk>>
    ELSE IF ~outputDir(options).defined
    THEN /\ hist' = [Called("dummy") EXCEPT !.threw = TRUE]
         /\ UNCHANGED <<localeData, localeDataEmitted, localeDataFiles, files, modules,
                        options, ilibDir, disk>>
    ELSE LET names == toArray(DummyOutputSet(<<>>, options.locales))
             list == names \o << <<"ilibmanifest">> >>
         IN /\ files' = WriteEmptyFiles(
                            WriteIfAbsent(files, OutFile(options, dummyManifestFile),
                                          DummyManifestText(names)),
                            options, names)
            /\ localeDataFiles' = Def(list)
            /\ hist' = [Called("dummy") EXCEPT !.again = (hist.op = "dummy"), !.names = list]
            /\ UNCHANGED <<localeData, localeDataEmitted, modules, options, ilibDir, disk>>

Next ==
    \/ \E data \in Features : AddData(data)
    \/ FinishModules
    \/ GetDummyLocaleDataFiles

Spec == Init /\ [][Next]_vars

\* the locale list of the configurations below
OptionLocales == {<<enUS>>}

\* every combination of tempDir, ilibRoot, debug and of what findIlibRoot() finds
AllOptions ==
    {OptionsOf(ls, td, root, dbg) :
        ls \in OptionLocales, td \in TempDirs, root \in {Undefined, Def(givenIlibRoot)},
        dbg \in BOOLEAN}

InitOptions == InitWith(AllOptions, {Undefined, Def(foundIlibDir)}, {DiskMain})

SpecOptions == InitOptions /\ [][Next]_vars

----------------------------------------------------------------------------
(* Storage that fails: a write of the pass throws *)

\* the writes that may throw: the first (the local manifest) and the third (the
\* first bundle)
FailPoints == {1, 3}

\* the finish-modules stage when fs.writeFileSync throws at a fail point
FinishModulesWriteFails ==
    /\ HasData(localeData)
    /\ \E n \in FailPoints : Hook(options, n, FALSE)

\* a complete configuration for one locale
StorageOptions == {OptionsOf(<<enUS>>, Def(relTempDir), Def(givenIlibRoot), FALSE)}

InitStorage == InitWith(StorageOptions, {Def(foundIlibDir)}, Disks)

NextStorage ==
    \/ Next
    \/ FinishModulesWriteFails

SpecStorage == InitStorage /\ [][NextStorage]_vars

----------------------------------------------------------------------------
(* A second plugin instance in the same process: the module-wide localeData,  *)
(* localeDataEmitted and localeDataFiles are shared with it                   *)

\* the options the second instance was constructed with
OtherOptions == OptionsOf(<<zhHansCN>>, Def(absTempDir), Def(givenIlibRoot), FALSE)

\* the finish-modules stage of a compilation the second instance is applied to
FinishModulesOther == Hook(OtherOptions, 0, TRUE)

NextInstances ==
    \/ Next
    \/ FinishModulesOther

SpecInstances == InitStorage /\ [][NextInstances]_vars

----------------------------------------------------------------------------
(* Properties *)

\* the feature names that are looked up per partition
GenericFeatures == {f \in Features : Classify(f) = "generic"}

HasGeneric(names) == \E i \in 1..Len(names) : names[i] \in GenericFeatures

\* the last call was an emit that returned its sources
Emitted == hist.op = "emit" /\ hist.ret.defined

\* the body of a file of the returned sources
BodyOf(sources, file) == Get(sources, OutFile(options, file)).body

\* the partition names listed by the remote manifest of the returned sources
ListedPartitions(sources) ==
    LET body == BodyOf(sources, remoteManifestFile)
    IN [i \in 1..Len(body) |-> SubSeq(body[i], 1, Len(body[i]) - 1)]

\* the chain as the specification words it: the six candidates in their fixed
\* order, those with an absent component left out
ExpectedChain(l) ==
    LET cand == << [name |-> <<"root">>, present |-> TRUE],
                   [name |-> <<l.language>>, present |-> TRUE],
                   [name |-> <<l.language, "-", l.script>>, present |-> l.script # ""],
                   [name |-> <<l.language, "-", l.script, "-", l.region>>,
                    present |-> l.script # "" /\ l.region # ""],
                   [name |-> <<l.language, "-", l.region>>, present |-> l.region # ""],
                   [name |-> <<"und", "-", l.region>>, present |-> l.region # ""] >>
        kept == SelectSeq(cand, LAMBDA c : c.present)
    IN [i \in 1..Len(kept) |-> kept[i].name]

ChainNames(l) == [j \in 1..Len(parts(l)) |-> partName(parts(l)[j])]

\* C1: for every locale tag the partitions tried for a generic feature are, in
\* order, root, language, language-script, language-script-region,
\* language-region, und-region, absent components left out (the region entries
\* after the script entries); an emit for one locale and a generic feature
\* produces exactly these partitions in this order, and the placeholder step
\* derives the same set of partitions from the same tags.
C1_ChainOrder ==
    /\ \A i \in 1..Len(options.locales) :
          /\ ChainNames(options.locales[i]) = ExpectedChain(options.locales[i])
          /\ Range(dummyParts(options.locales[i])) = Range(ExpectedChain(options.locales[i]))
    /\ (Emitted /\ HasGeneric(localeData) /\ Len(options.locales) = 1)
          => ListedPartitions(hist.ret.value) = ExpectedChain(options.locales[1])
    /\ (Emitted /\ HasGeneric(localeData))
          => Range(ListedPartitions(hist.ret.value)) =
                UNION {Range(ExpectedChain(options.locales[i])) : i \in 1..Len(options.locales)}
    /\ hist.op = "dummy"
          => Range(SubSeq(hist.names, 1, Len(hist.names) - 1)) =
                UNION {Range(ExpectedChain(options.locales[i])) : i \in 1..Len(options.locales)}

\* an emit for zh-Hans-CN, a tag with script and region, with a generic feature
C1_Witness ==
    /\ Emitted
    /\ options.locales = <<zhHansCN>>
    /\ dateformat \in Range(localeData)
    /\ Len(ListedPartitions(hist.ret.value)) = 6

\* C2: an emit that directly follows an emit, with no registration in between,
\* returns the same sources (the same files with the same text), or fails the
\* same way.
C2_EmitIdempotent ==
    [][(hist.op = "emit" /\ hist'.op = "emit")
          => (hist'.threw = hist.threw /\ hist'.ret = hist.ret)]_vars

\* two emits in a row, the second of which returned sources
C2_Witness == Emitted /\ hist.again /\ Len(hist.ret.value) > 2

\* C3: registering a name that is already registered leaves the emission cache
\* as it is, registering a new name leaves it NotEmitted, and no step removes a
\* name from the registered set.
C3_MonotonicInvalidation ==
    [][/\ \A i \in 1..Len(localeData) : i <= Len(localeData') /\ localeData'[i] = localeData[i]
       /\ \A data \in Features :
             (hist'.op = "addData" /\ localeData' = SetAdd(localeData, data))
                => IF data \in Range(localeData)
                   THEN localeDataEmitted' = localeDataEmitted
                   ELSE localeDataEmitted' = Undefined]_vars

\* a name was registered again while the cache was Emitted, and the cache still is
C3_Witness == hist.op = "addData" /\ localeDataEmitted.defined /\ hist.passes > 0

\* C4: whenever the emission cache is Emitted, the cached sources are what a
\* fresh aggregation over the names registered now produces (options and data
\* held fixed), and an emit that returns hands back exactly that.
C4_CacheCoherent ==
    LET st == FreshPass(disk, options, localeData)
    IN /\ localeDataEmitted.defined
            => (~st.threw /\ localeDataEmitted.value = Sources(options, st))
       /\ Emitted => (~st.threw /\ hist.ret.value = Sources(options, st))

\* the cache was filled by a second pass, run after a name was registered
\* following an earlier pass, and covers both names
C4_Witness ==
    /\ localeDataEmitted.defined
    /\ hist.passes = 2
    /\ localeData = <<dateformat, zoneinfo>>
    /\ \E i \in 1..Len(localeDataEmitted.value) :
          /\ localeDataEmitted.value[i].key = OutFile(options, rootPart \o js)
          /\ Len(localeDataEmitted.value[i].value.body) > 2

\* the bundles of the returned sources
Bundles(sources) == SelectSeq(sources, LAMBDA e : e.value.kind = "bundle")

\* the partition a bundle file belongs to
PartitionOf(file) == SubSeq(file, LastSlash(file, Len(file)) + 1, Len(file) - 1)

\* the number of lines of a bundle that assign to the given left-hand side
CountLhs(body, lhs) == Cardinality({i \in 1..Len(body) : body[i].lhs = lhs})

\* C5: in the sources an emit returns, the bundle of every partition holds at
\* most one assignment line for each generic feature, however many locales of
\* the list reach that partition.
C5_Deduplicated ==
    Emitted =>
        \A i \in 1..Len(Bundles(hist.ret.value)) :
            LET b == Bundles(hist.ret.value)[i]
                part == PartitionOf(b.key)
            IN \A f \in GenericFeatures :
                  CountLhs(b.value.body, GenericLine(f, part, [file |-> <<>>]).lhs) <= 1

\* en-US and en both reach root and en; each holds the one line of dateformat
C5_Witness ==
    /\ Emitted
    /\ options.locales = <<enUS, en>>
    /\ dateformat \in Range(localeData)
    /\ \A p \in {<<"root">>, <<"en">>} :
          /\ HasKey(hist.ret.value, OutFile(options, p \o js))
          /\ CountLhs(BodyOf(hist.ret.value, p \o js),
                      GenericLine(dateformat, p, [file |-> <<>>]).lhs) = 1

\* the charsets named by the lang2charset table
TableCharsets(d) == UNION {Range(d.lang2charset[i].value) : i \in 1..Len(d.lang2charset)}

\* the charsets whose charset fragment exists and carries optional: true
OptionalCharsets(d) == {cs \in TableCharsets(d) : existsSync(d, charsetPath(cs)) /\ cs \in d.optional}

RECURSIVE OtherLines(_)
OtherLines(bundles) ==
    IF bundles = <<>> THEN {}
    ELSE (IF Head(bundles).key = OutFile(options, rootPart \o js) THEN {} ELSE Range(Head(bundles).value.body))
         \cup OtherLines(Tail(bundles))

\* the lines of all the bundles of the returned sources
AllLines(sources) ==
    UNION {Range(Bundles(sources)[i].value.body) : i \in 1..Len(Bundles(sources))}

\* the generic zone files: the .json files directly under the zone directory
\* (zonetab.json aside) and those under its Etc subtree, as paths below it
GenericZoneFiles(d) ==
    {d.zoneDir.value[i] : i \in {j \in 1..Len(d.zoneDir.value) :
        /\ d.zoneDir.value[j][Len(d.zoneDir.value[j])] = ".json"
        /\ d.zoneDir.value[j] # <<"zonetab", ".json">>}}
    \cup {<<"Etc", "/">> \o d.etcDir.value[i] : i \in 1..Len(d.etcDir.value)}

\* the zones zonetab lists for the regions of the locales, whose file exists
RegionZoneSet(d, locales) ==
    {z \in UNION {Range(d.zonetab[i].value) : i \in {j \in 1..Len(d.zonetab) :
                        \E k \in 1..Len(locales) : locales[k].region = d.zonetab[j].key}} :
        existsSync(d, <<"zoneinfo", "/">> \o z \o json)}

\* C7 (as claimed): with "zoneinfo" registered the root bundle of an emit holds
\* the zonetab table, an assignment for every zone zonetab lists for the region
\* of a locale (the zone file being there), and one assignment per generic zone
\* file of the zone directory and of its Etc subtree, each carrying the payload
\* of its file; no other partition holds any of them.
C7_ZoneinfoComplete ==
    (Emitted /\ zoneinfo \in Range(localeData)) =>
        /\ HasKey(hist.ret.value, OutFile(options, rootPart \o js))
        /\ LET body == BodyOf(hist.ret.value, rootPart \o js)
               tab == ZonetabLine(readFileSync(disk, zonetabPath))
               regional == {ZoneLine(z, readFileSync(disk, <<"zoneinfo", "/">> \o z \o json)) :
                               z \in RegionZoneSet(disk, options.locales)}
               generic == {readFileSync(disk, <<"zoneinfo", "/">> \o f) : f \in GenericZoneFiles(disk)}
           IN /\ tab \in Range(body)
              /\ regional \subseteq Range(body)
              /\ \A data \in generic :
                    Cardinality({i \in 1..Len(body) : body[i].data = data}) = 1
              /\ \A line \in OtherLines(Bundles(hist.ret.value)) :
                    line # tab /\ line \notin regional /\ line.data \notin generic

\* the forms registered with a given script token ("" for no suffix)
FormsWith(names, script) ==
    {normExec(names[i]).form : i \in {j \in 1..Len(names) :
        /\ Classify(names[j]) = "normalization"
        /\ normExec(names[j]).script = script}}

\* C8 (as claimed): when a form is registered with the script token "all" and
\* its all.json exists, the output of an emit holds the merge statement of
\* <form>/all and no merge statement of that form for any other script,
\* whatever else is registered.
C8_AllShortcut ==
    Emitted =>
        \A f \in FormsWith(localeData, "all") :
            existsSync(disk, <<f, "/", "all", ".json">>) =>
                /\ FormLine(f, "all", readFileSync(disk, <<f, "/", "all", ".json">>))
                      \in AllLines(hist.ret.value)
                /\ \A line \in AllLines(hist.ret.value) :
                      (line.kind = "extend" /\ line.lhs[2] = f) => line.lhs[3] = "all"

\* C9 (as claimed): when a form is registered without the token "all" and with
\* no script suffix, an emit produces the merge statement of that form for
\* every likely script of the locales whose fragment exists.  (Stated for the
\* passes that produce a root bundle, so that the merge statements have a
\* partition to go to.)
C9_DefaultScripts ==
    (Emitted /\ HasKey(hist.ret.value, OutFile(options, rootPart \o js))) =>
        \A f \in FormsWith(localeData, "") \ FormsWith(localeData, "all") :
            \A s \in Range(LikelyScripts(options.locales)) :
                existsSync(disk, <<f, "/", s, ".json">>) =>
                    FormLine(f, s, readFileSync(disk, <<f, "/", s, ".json">>))
                        \in AllLines(hist.ret.value)

\* C10: in the sources an emit returns, the remote manifest lists <partition>.js
\* once for every partition of the pass and nothing else, and a name is listed
\* if and only if the sources hold a bundle under that file name.
C10_RemoteManifest ==
    Emitted =>
        LET listed == BodyOf(hist.ret.value, remoteManifestFile)
            pass == FreshPass(disk, options, localeData)
        IN /\ \A i, j \in 1..Len(listed) : i # j => listed[i] # listed[j]
           /\ Range(listed) = {k \o js : k \in Range(Keys(pass.outputSet))}
           /\ {OutFile(options, n) : n \in Range(listed)} = Range(Keys(Bundles(hist.ret.value)))
           /\ Len(Bundles(hist.ret.value)) = Len(listed)

\* an emit that produced several partitions, one of them without any line
C10_Witness ==
    /\ Emitted
    /\ Len(BodyOf(hist.ret.value, remoteManifestFile)) >= 3
    /\ \E i \in 1..Len(Bundles(hist.ret.value)) : Bundles(hist.ret.value)[i].value.body = <<>>

\* the paths the generic branch looks up: one per directory of the chain of every
\* locale and per generic feature
GenericPaths(locales, names) ==
    {Join(parts(locales[i])[j], names[k] \o json) :
        <<i, j, k>> \in {t \in (1..Len(locales)) \X (1..6) \X (1..Len(names)) :
                            /\ t[2] <= Len(parts(locales[t[1]]))
                            /\ Classify(names[t[3]]) = "generic"}}

\* the paths the zoneinfo branch looks up: the table, the zone of every region
\* of a locale, the generic zone files
ZonePaths(d, locales) ==
    {zonetabPath}
    \cup {<<"zoneinfo", "/">> \o z \o json : z \in Range(ZoneSet(d.zonetab, RegionSet(locales), <<>>))}
    \cup {<<"zoneinfo", "/">> \o f : f \in GenericZoneFiles(d)}

\* the paths looked up for the charsets and charmaps a pass collected (the
\* charmap of an optional charset is skipped before it is looked up)
CharsetPaths(d, st) ==
    IF Len(st.charsets) = 0 THEN {}
    ELSE {aliasesPath}
         \cup {charsetPath(cs) : cs \in Range(st.charsets)}
         \cup {charmapsPath(cs) : cs \in UNION {Range(st.charmaps[i].value) : i \in 1..Len(st.charmaps)}
                                        \ OptionalCharsets(d)}

\* the paths addForm looks up for the forms a pass collected
NormPaths(st, locales) ==
    UNION {LET form == st.normalizations[i].key
               set == IF "all" \in Range(st.normalizations[i].value) THEN <<"all">>
                      ELSE FormScripts(st.normalizations, form, LikelyScripts(locales))
           IN {<<form, "/", script, ".json">> : script \in Range(set) \ {""}}
           : i \in 1..Len(st.normalizations)}

ConsideredPaths(d, locales, names) ==
    LET st == Aggregate(d, locales, names)
    IN GenericPaths(locales, names)
       \cup (IF zoneinfo \in Range(names) THEN ZonePaths(d, locales) ELSE {})
       \cup CharsetPaths(d, st)
       \cup NormPaths(st, locales)

\* C11 (as claimed): the local manifest of an emit lists, each once, exactly the
\* relative fragment paths the pass looked up, found or not: the per-partition
\* paths of the generic features and the paths looked up by the zoneinfo,
\* charset, charmap and normalization resolvers.
C11_LocalManifestComplete ==
    Emitted =>
        LET listed == BodyOf(hist.ret.value, localManifestFile)
        IN /\ \A i, j \in 1..Len(listed) : i # j => listed[i] # listed[j]
           /\ Range(listed) = ConsideredPaths(disk, options.locales, localeData)

\* the output directory and the data root can be worked out
Configured == outputDir(options).defined /\ calcDataRoot(options, ilibDir).defined

\* C12 (as claimed): a fragment file that cannot be read or parsed (a generic
\* fragment, the zonetab table, a zone file, a charset or charmap file, the
\* lang2charset table, a normalization fragment) never aborts the pass: with the
\* output directory and the data root in place, every emit returns its sources,
\* the manifests among them.
C12_FragmentIsolation ==
    (hist.op = "emit" /\ Configured) =>
        /\ ~hist.threw
        /\ hist.ret.defined
        /\ HasKey(hist.ret.value, OutFile(options, localManifestFile))
        /\ HasKey(hist.ret.value, OutFile(options, remoteManifestFile))

\* no ilibRoot option and nothing for findIlibRoot() to find
Unresolvable == ~options.ilibRoot.defined /\ ~ilibDir.defined

\* C13: with no ilibRoot option and no installation to discover, an emit raises
\* an error: the hook throws to the host, no sources are returned, no file of
\* the output directory and no module is touched, and the cache stays NotEmitted.
C13_UnresolvableRootFatal ==
    [][(hist'.op = "emit" /\ Unresolvable)
          => /\ hist'.threw
             /\ ~hist'.ret.defined
             /\ files' = files
             /\ modules' = modules
             /\ localeDataEmitted' = Undefined]_vars

\* an emit that failed on the data root alone (the output directory is given),
\* after the placeholders were written
C13_Witness ==
    /\ hist.op = "emit"
    /\ hist.threw
    /\ Unresolvable
    /\ outputDir(options).defined
    /\ localeDataFiles.defined
    /\ Len(files) > 2

\* the partitions of the fallback chains of all the locales
AllPartitions(locales) == UNION {Range(ExpectedChain(locales[i])) : i \in 1..Len(locales)}

\* the files the placeholder step stands for: one per partition, and the manifest
PlaceholderFiles(opts) ==
    {OutFile(opts, p \o js) : p \in AllPartitions(opts.locales)}
    \cup {OutFile(opts, dummyManifestFile)}

\* C14: a placeholder call that returns leaves every file that was there as it
\* was, and afterwards every partition of the chain of every locale has its
\* <partition>.js and ilibmanifest.json is there; the files it creates are these
\* and no others, the partition files empty and the manifest listing the
\* partitions; it returns the partitions and "ilibmanifest"; a call made when the
\* list is already known returns that list and changes no file.
C14_PlaceholdersIdempotent ==
    [][(hist'.op = "dummy" /\ ~hist'.threw) =>
          /\ Len(files') >= Len(files)
          /\ \A i \in 1..Len(files) : files'[i] = files[i]
          /\ PlaceholderFiles(options) \subseteq Range(Keys(files'))
          /\ \A i \in (Len(files) + 1)..Len(files') :
                /\ files'[i].key \in PlaceholderFiles(options)
                /\ IF files'[i].key = OutFile(options, dummyManifestFile)
                   THEN /\ files'[i].value.kind = "json"
                        /\ Range(files'[i].value.body) =
                              {p \o js : p \in AllPartitions(options.locales)}
                   ELSE files'[i].value = EmptyFile
          /\ Range(hist'.names) = AllPartitions(options.locales) \cup {<<"ilibmanifest">>}
          /\ Len(hist'.names) = Cardinality(AllPartitions(options.locales)) + 1
          /\ localeDataFiles' = Def(hist'.names)
          /\ localeDataFiles.defined => (files' = files /\ hist'.names = localeDataFiles.value)
      ]_vars

\* a second placeholder call in a row, made after an emit had filled the root
\* bundle: the bundle kept its lines and the other partitions are empty files
C14_Witness ==
    /\ hist.op = "dummy"
    /\ hist.again
    /\ hist.passes > 0
    /\ Len(options.locales) = 2
    /\ HasKey(files, OutFile(options, rootPart \o js))
    /\ Get(files, OutFile(options, rootPart \o js)).kind = "bundle"
    /\ Get(files, OutFile(options, rootPart \o js)).body # <<>>
    /\ \E i \in 1..Len(files) : files[i].value = EmptyFile

\* a form token alone, or a form token, "/" and a word
IsFormName(f) ==
    /\ Len(f) >= 1
    /\ f[1] \in FormTokens
    /\ \/ Len(f) = 1
       \/ /\ Len(f) >= 3
          /\ f[2] = "/"
          /\ \A i \in 3..Len(f) : f[i] \notin Separators

\* the category of a feature name as the claim words it
ExpectedClass(f) ==
    IF f = charset \/ f = charmaps THEN "charset"
    ELSE IF IsFormName(f) THEN "normalization"
    ELSE IF f = zoneinfo THEN "zoneinfo"
    ELSE "generic"

\* C15 (as claimed): a registered name is handled as charset family iff it is
\* exactly "charset" or "charmaps", otherwise as normalization iff it is a form
\* token optionally followed by /<script>, otherwise as timezone iff it is exactly
\* "zoneinfo", and as a generic locale file in every other case, a name that only
\* contains a form token included; an emit looks up a generic name in every
\* partition of every locale.
C15_Classification ==
    /\ \A i \in 1..Len(localeData) : Classify(localeData[i]) = ExpectedClass(localeData[i])
    /\ Emitted =>
          \A i \in 1..Len(localeData) :
              ExpectedClass(localeData[i]) = "generic" =>
                  \A j \in 1..Len(options.locales) :
                      \A k \in 1..Len(parts(options.locales[j])) :
                          Join(parts(options.locales[j])[k], localeData[i] \o json)
                              \in Range(BodyOf(hist.ret.value, localManifestFile))

\* C16: the finish-modules stage runs the aggregation only when a feature is
\* registered; triggered with none registered it writes no file, changes no
\* module source and no cache, returns nothing, does not throw, and writes to
\* the console exactly when the debug option is set.
C16_ZeroFeaturesNoOp ==
    [][/\ hist'.op = "emit" => localeData # <<>>
       /\ (hist'.op \in {"emit", "noop"} /\ localeData = <<>>) =>
             /\ hist'.op = "noop"
             /\ UNCHANGED <<localeData, localeDataEmitted, localeDataFiles, files, modules>>
             /\ ~hist'.threw
             /\ ~hist'.ret.defined
             /\ hist'.hookLog = options.debug]_vars

\* the stage was triggered with nothing registered and debug off, after the
\* placeholders had been written
C16_Witness ==
    /\ hist.op = "noop"
    /\ ~hist.hookLog
    /\ ~options.debug
    /\ localeData = <<>>
    /\ Len(files) > 2

\* the output directory as the claim words it: the default "assets" under the
\* working directory when tempDir is omitted (or empty), a relative tempDir
\* under the working directory, an absolute one as it is
ExpectedOutputDir(opts) ==
    IF ~opts.tempDir.defined \/ opts.tempDir.value = <<>> THEN cwd \o <<"/", "assets">>
    ELSE IF opts.tempDir.value[1] = "/" THEN opts.tempDir.value
    ELSE cwd \o <<"/">> \o opts.tempDir.value

IsPrefix(pre, path) == Len(pre) <= Len(path) /\ SubSeq(path, 1, Len(pre)) = pre

\* C17 (as claimed): whatever tempDir is, omitted included, the placeholder
\* call completes and so does an emit whose data root can be worked out, they
\* write files, and every file written lies in <output directory>/locales, the
\* output directory being <cwd>/assets when tempDir is omitted, <cwd>/<tempDir>
\* when it is relative and tempDir itself when it is absolute.
C17_DefaultOutputDir ==
    /\ hist.op = "dummy" => (~hist.threw /\ files # <<>>)
    /\ (hist.op = "emit" /\ ~Unresolvable) => (~hist.threw /\ files # <<>>)
    /\ \A i \in 1..Len(files) :
          IsPrefix(ExpectedOutputDir(options) \o <<"/", "locales", "/">>, files[i].key)

\* the first assignment to a key in a sequence of assignments
FirstWrite(writes, key) ==
    writes[CHOOSE i \in 1..Len(writes) :
              writes[i].key = key /\ \A j \in 1..(i - 1) : writes[j].key # key]

\* C18 (as claimed): once a text is recorded for a key of a partition no later
\* step of the pass replaces it.  For the zoneinfo resolver: no assignment of a
\* run replaces the text an earlier assignment recorded under the same key, and
\* the root bucket ends the pass with the text of the first assignment to each
\* of the keys the resolver wrote.
C18_FirstWriteWins ==
    (Emitted /\ zoneinfo \in Range(localeData)) =>
        LET writes == ZoneWrites(disk, options.locales)
            root == Get(FreshPass(disk, options, localeData).outputSet, rootPart)
        IN /\ \A i, j \in 1..Len(writes) :
                 (i < j /\ writes[i].key = writes[j].key) => writes[j].line = writes[i].line
           /\ \A i \in 1..Len(writes) :
                 Get(root, writes[i].key) = FirstWrite(writes, writes[i].key).line

\* the position of a name in the registered names, 0 when it is not there
IndexIn(names, f) == IF f \in Range(names) THEN CHOOSE i \in 1..Len(names) : names[i] = f ELSE 0

IsZoneLine(line) == line.lhs[1] = "ilib.data.zoneinfo["

\* the stage of the pass that first adds the key of a line of a partition: the
\* loop over the registered names (the position of the name), then the charset
\* aliases, the charsets, the charmaps, and last the normalization forms
StageOf(names, part, line) ==
    IF line.kind = "extend" THEN Len(names) + 4
    ELSE IF line.lhs[1] = "ilib.data.charmaps_" THEN Len(names) + 3
    ELSE IF line.lhs[1] = "ilib.data.charset_" THEN Len(names) + 2
    ELSE IF line.lhs = AliasesLine(line.data).lhs THEN Len(names) + 1
    ELSE IF line.lhs = ZonetabLine(line.data).lhs \/ IsZoneLine(line) THEN IndexIn(names, zoneinfo)
    ELSE IndexIn(names, CHOOSE f \in Range(names) : GenericLine(f, part, line.data).lhs = line.lhs)

PlaceholderPartitions(opts) == Range(toArray(DummyOutputSet(<<>>, opts.locales)))

\* C21: every partition bundle an emit returns, whatever is registered, bears
\* the name of a partition the placeholder step creates a resource for from the
\* same locale list (and, once that step has run, a name of the list it returned).
C21_BundlesCoveredByPlaceholders ==
    Emitted =>
        \A i \in 1..Len(Bundles(hist.ret.value)) :
            LET part == PartitionOf(Bundles(hist.ret.value)[i].key)
            IN /\ part \in PlaceholderPartitions(options)
               /\ Bundles(hist.ret.value)[i].key = OutFile(options, part \o js)
               /\ localeDataFiles.defined => part \in Range(localeDataFiles.value)

\* an emit for zh-Hans-CN with zoneinfo and a generic feature: six bundles, the
\* root bundle with the zone lines, after the placeholder step has run
C21_Witness ==
    /\ Emitted
    /\ localeData = <<zoneinfo, dateformat>>
    /\ options.locales = <<zhHansCN>>
    /\ localeDataFiles.defined
    /\ Len(Bundles(hist.ret.value)) = 6
    /\ Len(BodyOf(hist.ret.value, rootPart \o js)) >= 3

\* the file at a path is a bundle written by an emit
IsBundleFile(fs, path) == HasKey(fs, path) /\ Get(fs, path).kind = "bundle"

\* C22: a placeholder call leaves every bundle file an emit has written with
\* the text it had (it never puts an empty file in its place), no step ever
\* turns a bundle file back into an empty file, and an emit that runs its pass
\* when placeholders are there leaves, for every partition it produces, the
\* bundle text in the file and no empty placeholder.
C22_PlaceholderEmitInterleaving ==
    [][/\ \A i \in 1..Len(files) :
             files[i].value.kind = "bundle" =>
                 /\ IsBundleFile(files', files[i].key)
                 /\ hist'.op = "dummy" => Get(files', files[i].key) = files[i].value
       /\ (hist'.op = "emit" /\ hist'.ret.defined) =>
             \A i \in 1..Len(Bundles(hist'.ret.value)) :
                 LET b == Bundles(hist'.ret.value)[i]
                 IN /\ IsBundleFile(files', b.key)
                    /\ Get(files', b.key) = b.value
                    /\ Get(files', b.key) # EmptyFile]_vars

\* the placeholder step ran first (its manifest is the oldest file), then a
\* pass: the placeholders of the partitions the pass produced hold the bundle
\* text, the root bundle with a line in it
C22_Witness ==
    /\ Emitted
    /\ hist.passes = 1
    /\ files # <<>>
    /\ files[1].key = OutFile(options, dummyManifestFile)
    /\ Len(Bundles(hist.ret.value)) >= 3
    /\ \A i \in 1..Len(Bundles(hist.ret.value)) :
          Get(files, Bundles(hist.ret.value)[i].key) = Bundles(hist.ret.value)[i].value
    /\ BodyOf(hist.ret.value, rootPart \o js) # <<>>

----------------------------------------------------------------------------
(* C23: a failed pass does not populate the cache *)

\* C23: when the emit raises an error, in aggregation or at a write, the
\* emission cache was NotEmitted and stays NotEmitted; while the cache is
\* NotEmitted an emit that returns has run a full aggregation pass, and what it
\* returns and caches is the complete result of that pass, never a part of it
C23_FailedPassLeavesCacheEmpty ==
    [][/\ (hist'.op = "emit" /\ hist'.threw) =>
             /\ ~localeDataEmitted.defined
             /\ ~localeDataEmitted'.defined
             /\ ~hist'.ret.defined
       /\ (hist'.op = "emit" /\ ~hist'.threw /\ ~localeDataEmitted.defined) =>
             LET st == FreshPass(disk, options, localeData)
             IN /\ ~st.threw
                /\ hist'.passes = hist.passes + 1
                /\ hist'.ret = Def(Sources(options, st))
                /\ localeDataEmitted' = hist'.ret]_vars

\* an emit threw at the write of the first bundle: the two manifests are in the
\* output directory, no bundle is, and the cache is NotEmitted
C23_Witness ==
    /\ hist.op = "emit"
    /\ hist.threw
    /\ disk = DiskMain
    /\ ~FreshPass(disk, options, localeData).threw
    /\ HasKey(files, OutFile(options, localManifestFile))
    /\ HasKey(files, OutFile(options, remoteManifestFile))
    /\ ~HasKey(files, OutFile(options, rootPart \o js))
    /\ ~localeDataEmitted.defined

----------------------------------------------------------------------------
(* C24: a cached emit ignores its arguments and has no effect *)

\* C24: once the emission cache holds a result, an emit returns exactly that
\* stored result whatever options it is called with, the call of a second
\* plugin instance with another locale list and output directory included; it
\* does not throw, writes no file, and changes neither the registered names
\* nor the cache
C24_CachedEmitIgnoresArguments ==
    [][(hist'.op = "emit" /\ localeDataEmitted.defined) =>
           /\ ~hist'.threw
           /\ hist'.ret = Def(localeDataEmitted.value)
           /\ hist'.passes = hist.passes
           /\ files' = files
           /\ localeData' = localeData
           /\ localeDataEmitted' = localeDataEmitted]_vars

\* the second instance asked after the first instance's pass: it was handed the
\* first instance's result, which is not what a pass with its own options
\* produces, and none of its own output files was written
C24_Witness ==
    /\ hist.op = "emit"
    /\ hist.other
    /\ hist.passes = 1
    /\ disk = DiskMain
    /\ options.locales # OtherOptions.locales
    /\ hist.ret.defined
    /\ hist.ret = localeDataEmitted
    /\ ~FreshPass(disk, OtherOptions, localeData).threw
    /\ hist.ret.value # Sources(OtherOptions, FreshPass(disk, OtherOptions, localeData))
    /\ ~HasKey(files, OutFile(OtherOptions, localManifestFile))

====
